---- MODULE Spec2Model ----
(***************************************************************************)
(* Model of package dirnotifier: a DirectoryNotifier owns one fsnotify     *)
(* watcher, one registry (filesToNotifiers, a sync.Map from file name to   *)
(* a chan struct{}) and one background goroutine (initializeWatcher) that  *)
(* drains watcher.Events and closes the channel registered for the event's *)
(* file.  Callers register with NotifierForFile.                           *)
(***************************************************************************)
EXTENDS Naturals, Sequences, FiniteSets, TLC

\* ---------------------------------------------------------------- bounds
\* Total number of NotifierForFile calls (each one makes one channel).
MaxCalls == 2
\* Total number of events the watcher delivers on watcher.Events.
MaxEvents == 2

\* ------------------------------------------------------- inputs and values
Paths == {"a.txt", "b.txt"}
Callers == {"c1", "c2"}

\* fsnotify.Op flags (Create Op = 1 << iota; Write; Remove).
Create == 2 ^ 0
Write == 2 ^ 1
Remove == 2 ^ 2

\* Operation bitmasks an event may carry.
EventOps == {Create, Write}

\* The directories New is called with.
Dirs == {"/tmp/x", "/tmp/y"}

\* The directory that goes with an opsToWatch list in the calls of New that
\* are tried: dir reaches nothing but dn.dir, so the two are not varied
\* against each other.
DirFor(ops) == IF Len(ops) = 1 THEN "/tmp/y" ELSE "/tmp/x"

\* The variadic opsToWatch argument lists New is called with.
OpsChoices == {<<>>, <<Write>>, <<Write, Remove>>}

\* The zero value of an interface slot: no channel.
NoChan == 0
Chans == 1..MaxCalls
NoEvent == [Name |-> "", Op |-> 0, id |-> 0]

VARIABLES
    newPc,            \* position of the New call
    newDir,           \* New: parameter dir
    dir,              \* dn.dir ("" while dn is not constructed)
    dirRet,           \* the value the last Directory() call returned
    opsToWatch,       \* dn.opsToWatch
    filesToNotifiers, \* dn.filesToNotifiers: file -> channel or NoChan
    events,           \* dn.watcher.Events: events delivered, not yet received
    eventsClosed,     \* watcher.Events has been closed (the watcher was closed)
    closeLog,         \* who performed watcher.Close(), in order
    loopPc,           \* position of the initializeWatcher goroutine
    event,            \* initializeWatcher: the range variable event
    op,               \* initializeWatcher: the range variable op (an index)
    notifyChan,       \* initializeWatcher: the channel LoadAndDelete returned
    callerPc,         \* position of each caller's NotifierForFile call
    callerFile,       \* NotifierForFile: parameter file
    callerC,          \* NotifierForFile: local c
    callerRet,        \* NotifierForFile: returned (chan, error); history: again,
                      \* a channel made for the file was closed before the call
    made,             \* number of channels made so far
    chanFile,         \* history: the file a channel was made for
    closes,           \* number of close() operations performed on a channel
    closedBy,         \* history: id of the event whose handling closed it
    emitted,          \* history: number of events delivered so far
    attempts,         \* history: LoadAndDelete calls made for the event last taken
    registered,       \* history: successful registrations per file
    resolved,         \* history: LoadAndDelete hits per file
    okInEpoch,        \* history: successes per file since its last resolution
    failInEpoch,      \* history: failures per file since its last resolution
    received,         \* history: number of events the loop has taken
    closeSeq          \* history: the channels closed, in the order of closing

vars == <<newPc, opsToWatch, filesToNotifiers, events, eventsClosed, closeLog,
          loopPc, event, op, notifyChan, callerPc, callerFile, callerC,
          callerRet, made, chanFile, closes, closedBy, emitted, attempts,
          registered, resolved, okInEpoch, failInEpoch, newDir, dir, dirRet,
          received, closeSeq>>

newVars == <<newPc, opsToWatch, newDir, dir>>
loopVars == <<loopPc, event, op, notifyChan, attempts>>
callerVars == <<callerPc, callerFile, callerC, callerRet, made, chanFile>>
regHist == <<registered, resolved, okInEpoch, failInEpoch>>
chanVars == <<closes, closedBy>>
streamVars == <<events, eventsClosed, emitted>>

\* ------------------------------------------------------- pure functions
RECURSIVE BitAnd(_, _)
\* Go's x & y on non-negative integers.
BitAnd(x, y) ==
    IF x = 0 \/ y = 0 THEN 0
    ELSE (x % 2) * (y % 2) + 2 * BitAnd(x \div 2, y \div 2)

\* A test for a partial overlap instead of for the whole flag.
OpOverlaps(evOp, o) == BitAnd(evOp, o) # 0

\* event.Op&fsnotify.Op(op) == fsnotify.Op(op)
OpMatches(evOp, o) == BitAnd(evOp, o) = o

\* A store that does not look first: the check-then-insert race.
StoreUnchecked(m, key, val) ==
    [m |-> [m EXCEPT ![key] = val], actual |-> val, loaded |-> FALSE]

\* A load that reports the existing entry yet overwrites it.
LoadAndOverwrite(m, key, val) ==
    [m |-> [m EXCEPT ![key] = val], actual |-> m[key], loaded |-> m[key] # NoChan]

\* sync.Map.LoadOrStore(key, val)
LoadOrStore(m, key, val) ==
    IF m[key] # NoChan
    THEN [m |-> m, actual |-> m[key], loaded |-> TRUE]
    ELSE [m |-> [m EXCEPT ![key] = val], actual |-> val, loaded |-> FALSE]

\* A load that leaves the entry in the map.
LoadOnly(m, key) ==
    [m |-> m, value |-> m[key], loaded |-> m[key] # NoChan]

\* A delete that empties the whole map.
LoadAndDeleteAll(m, key) ==
    [m |-> [k \in DOMAIN m |-> NoChan], value |-> m[key], loaded |-> m[key] # NoChan]

\* sync.Map.LoadAndDelete(key)
LoadAndDelete(m, key) ==
    [m |-> [m EXCEPT ![key] = NoChan], value |-> m[key], loaded |-> m[key] # NoChan]

\* ------------------------------------------------------------------ Init
Init ==
    /\ newPc = "start"
    /\ opsToWatch \in OpsChoices
    /\ filesToNotifiers = [p \in Paths |-> NoChan]
    /\ events = <<>>
    /\ eventsClosed = FALSE
    /\ closeLog = <<>>
    /\ loopPc = "none"
    /\ event = NoEvent
    /\ op = 0
    /\ notifyChan = NoChan
    /\ callerPc = [c \in Callers |-> "idle"]
    /\ callerFile = [c \in Callers |-> ""]
    /\ callerC = [c \in Callers |-> NoChan]
    /\ callerRet = [c \in Callers |-> [ch |-> NoChan, err |-> FALSE, again |-> FALSE]]
    /\ made = 0
    /\ chanFile = [h \in Chans |-> ""]
    /\ closes = [h \in Chans |-> 0]
    /\ closedBy = [h \in Chans |-> 0]
    /\ emitted = 0
    /\ attempts = 0
    /\ registered = [p \in Paths |-> 0]
    /\ resolved = [p \in Paths |-> 0]
    /\ okInEpoch = [p \in Paths |-> 0]
    /\ failInEpoch = [p \in Paths |-> 0]
    /\ newDir \in Dirs /\ newDir = DirFor(opsToWatch)
    /\ dir = ""
    /\ dirRet = "none"
    /\ received = 0
    /\ closeSeq = <<>>

\* ------------------------------------------------------------------- New
\* fsnotify.NewWatcher() and the construction of dn; NewWatcher may fail.
NewWatcher ==
    /\ newPc = "start"
    /\ \E ok \in BOOLEAN :
        /\ newPc' = IF ok THEN "created" ELSE "nowatcher"
        /\ dir' = IF ok THEN newDir ELSE dir
    /\ UNCHANGED <<opsToWatch, newDir, filesToNotifiers, loopVars, callerVars,
                   regHist, chanVars, streamVars, closeLog>>
    /\ UNCHANGED <<dirRet, received, closeSeq>>

\* New goes on to watcher.Add without having started the goroutine.
GoNotStarted ==
    /\ newPc = "created"
    /\ newPc' = "spawned"
    /\ UNCHANGED <<opsToWatch, newDir, dir, filesToNotifiers, loopVars, callerVars,
                   regHist, chanVars, streamVars, closeLog>>
    /\ UNCHANGED <<dirRet, received, closeSeq>>

\* go dn.initializeWatcher()
GoInitializeWatcher ==
    /\ newPc = "created"
    /\ newPc' = "spawned"
    /\ loopPc' = "recv"
    /\ UNCHANGED <<opsToWatch, newDir, dir, filesToNotifiers, event, op, notifyChan,
                   attempts, callerVars, regHist, chanVars, streamVars, closeLog>>
    /\ UNCHANGED <<dirRet, received, closeSeq>>

\* watcher.Add(dir): on failure New returns (nil, err), otherwise (dn, nil).
WatcherAdd ==
    /\ newPc = "spawned"
    /\ \E ok \in BOOLEAN : newPc' = IF ok THEN "ok" ELSE "addfailed"
    /\ UNCHANGED <<opsToWatch, newDir, dir, filesToNotifiers, loopVars, callerVars,
                   regHist, chanVars, streamVars, closeLog>>
    /\ UNCHANGED <<dirRet, received, closeSeq>>

\* ------------------------------------------------------------- Directory
\* The zero string instead of the field.
DirectoryZero == ""

\* func (dn *DirectoryNotifier) Directory() string { return dn.dir }
Directory == dir

\* Some goroutine that holds dn calls dn.Directory().
CallDirectory ==
    /\ newPc = "ok"
    /\ dirRet' = Directory
    /\ UNCHANGED <<newVars, filesToNotifiers, loopVars, callerVars, regHist,
                   chanVars, streamVars, closeLog>>
    /\ UNCHANGED <<received, closeSeq>>

\* ------------------------------------------------------- NotifierForFile
\* c := make(chan struct{}, 1)
MakeChan(c, file) ==
    /\ newPc = "ok"
    /\ callerPc[c] \in {"idle", "ret"}
    /\ made < MaxCalls
    /\ made' = made + 1
    /\ callerC' = [callerC EXCEPT ![c] = made + 1]
    /\ callerFile' = [callerFile EXCEPT ![c] = file]
    /\ chanFile' = [chanFile EXCEPT ![made + 1] = file]
    /\ callerRet' = [callerRet EXCEPT ![c] = [ch |-> NoChan, err |-> FALSE, again |-> FALSE]]
    /\ callerPc' = [callerPc EXCEPT ![c] = "made"]
    /\ UNCHANGED <<newVars, filesToNotifiers, loopVars, regHist, chanVars,
                   streamVars, closeLog>>
    /\ UNCHANGED <<dirRet, received, closeSeq>>

\* A registry guarded by a lock the loop holds while it handles an event.
CanLoadOrStoreUnlocked(c) == callerPc[c] = "made" /\ loopPc \in {"none", "recv", "exited"}

\* What the LoadOrStore call of NotifierForFile waits for: nothing but the
\* caller's own arrival at it.
CanLoadOrStore(c) == callerPc[c] = "made"

\* dn.filesToNotifiers.LoadOrStore(file, c) and the return that follows it.
StoreChan(c) ==
    /\ CanLoadOrStore(c)
    /\ LET file == callerFile[c]
           r == LoadOrStore(filesToNotifiers, file, callerC[c])
           again == \E h \in Chans : chanFile[h] = file /\ closes[h] > 0
       IN /\ filesToNotifiers' = r.m
          /\ IF r.loaded
             THEN /\ callerRet' = [callerRet EXCEPT
                                     ![c] = [ch |-> NoChan, err |-> TRUE, again |-> again]]
                  /\ failInEpoch' = [failInEpoch EXCEPT ![file] = @ + 1]
                  /\ UNCHANGED <<registered, okInEpoch>>
             ELSE /\ callerRet' = [callerRet EXCEPT
                                     ![c] = [ch |-> callerC[c], err |-> FALSE, again |-> again]]
                  /\ registered' = [registered EXCEPT ![file] = @ + 1]
                  /\ okInEpoch' = [okInEpoch EXCEPT ![file] = @ + 1]
                  /\ UNCHANGED failInEpoch
    /\ callerPc' = [callerPc EXCEPT ![c] = "ret"]
    /\ UNCHANGED <<newVars, loopVars, callerFile, callerC, made, chanFile,
                   resolved, chanVars, streamVars, closeLog>>
    /\ UNCHANGED <<dirRet, received, closeSeq>>

\* ------------------------------------------------------- the event stream
\* The watcher delivers an event for a file of the watched directory.
Deliver(name, o) ==
    /\ newPc = "ok"
    /\ ~eventsClosed
    /\ emitted < MaxEvents
    /\ emitted' = emitted + 1
    /\ events' = Append(events, [Name |-> name, Op |-> o, id |-> emitted + 1])
    /\ UNCHANGED <<newVars, filesToNotifiers, loopVars, callerVars, regHist,
                   chanVars, eventsClosed, closeLog>>
    /\ UNCHANGED <<dirRet, received, closeSeq>>

\* The owner of the watcher closes it: watcher.Events is closed; events not
\* yet received may be lost.
OwnerClose ==
    /\ newPc = "ok"
    /\ ~eventsClosed
    /\ eventsClosed' = TRUE
    /\ closeLog' = Append(closeLog, "owner")
    /\ \E k \in 0..Len(events) : events' = SubSeq(events, 1, k)
    /\ UNCHANGED <<newVars, filesToNotifiers, loopVars, callerVars, regHist,
                   chanVars, emitted>>
    /\ UNCHANGED <<dirRet, received, closeSeq>>

\* ----------------------------------------------------- initializeWatcher
\* A loop that takes the newest event of the stream, not the oldest.
ReceiveLast ==
    /\ loopPc = "recv"
    /\ events # <<>>
    /\ event' = events[Len(events)]
    /\ events' = SubSeq(events, 1, Len(events) - 1)
    /\ received' = received + 1
    /\ op' = 0
    /\ attempts' = 0
    /\ loopPc' = "ops"
    /\ UNCHANGED <<newVars, filesToNotifiers, notifyChan, callerVars, regHist,
                   chanVars, eventsClosed, emitted, closeLog>>
    /\ UNCHANGED <<dirRet, closeSeq>>

\* for event := range dn.watcher.Events: take the next event.
Receive ==
    /\ loopPc = "recv"
    /\ events # <<>>
    /\ event' = Head(events)
    /\ events' = Tail(events)
    /\ received' = received + 1
    /\ op' = 0
    /\ attempts' = 0
    /\ loopPc' = "ops"
    /\ UNCHANGED <<newVars, filesToNotifiers, notifyChan, callerVars, regHist,
                   chanVars, eventsClosed, emitted, closeLog>>
    /\ UNCHANGED <<dirRet, closeSeq>>

\* A range that runs one index too far.
OpsLeftOffByOne == op <= Len(opsToWatch)

\* for op := range dn.opsToWatch: op ranges over the indexes 0..len-1.
OpsLeft == op < Len(opsToWatch)

\* The inner loop has run out of indexes: back to the range over Events.
OpsDone ==
    /\ loopPc = "ops"
    /\ ~OpsLeft
    /\ loopPc' = "recv"
    /\ event' = NoEvent
    /\ op' = 0
    /\ UNCHANGED attempts
    /\ UNCHANGED <<newVars, filesToNotifiers, notifyChan, callerVars, regHist,
                   chanVars, streamVars, closeLog>>
    /\ UNCHANGED <<dirRet, received, closeSeq>>

\* The test of line 41 fails for this index: next index.
OpSkip ==
    /\ loopPc = "ops"
    /\ OpsLeft
    /\ ~OpMatches(event.Op, op)
    /\ op' = op + 1
    /\ UNCHANGED <<newVars, filesToNotifiers, loopPc, event, notifyChan, attempts,
                   callerVars, regHist, chanVars, streamVars, closeLog>>
    /\ UNCHANGED <<dirRet, received, closeSeq>>

\* The test passes: LoadAndDelete(event.Name); a hit goes on to close the
\* channel, a miss goes on to the next index.
OpLoadAndDelete ==
    /\ loopPc = "ops"
    /\ OpsLeft
    /\ OpMatches(event.Op, op)
    /\ attempts' = attempts + 1
    /\ LET r == LoadAndDelete(filesToNotifiers, event.Name)
       IN /\ filesToNotifiers' = r.m
          /\ IF r.loaded
             THEN /\ notifyChan' = r.value
                  /\ loopPc' = "close"
                  /\ resolved' = [resolved EXCEPT ![event.Name] = @ + 1]
                  /\ okInEpoch' = [okInEpoch EXCEPT ![event.Name] = 0]
                  /\ failInEpoch' = [failInEpoch EXCEPT ![event.Name] = 0]
                  /\ UNCHANGED op
             ELSE /\ op' = op + 1
                  /\ UNCHANGED <<notifyChan, loopPc, resolved, okInEpoch, failInEpoch>>
    /\ UNCHANGED <<newVars, event, callerVars, registered, chanVars, streamVars,
                   closeLog>>
    /\ UNCHANGED <<dirRet, received, closeSeq>>

\* A close without the break: the inner loop goes on to the next index.
CloseNoBreak ==
    /\ loopPc = "close"
    /\ closes' = [closes EXCEPT ![notifyChan] = @ + 1]
    /\ closeSeq' = Append(closeSeq, notifyChan)
    /\ IF closes[notifyChan] > 0
       THEN /\ loopPc' = "panic"
            /\ UNCHANGED <<closedBy, op, notifyChan>>
       ELSE /\ closedBy' = [closedBy EXCEPT ![notifyChan] = event.id]
            /\ loopPc' = "ops"
            /\ op' = op + 1
            /\ notifyChan' = NoChan
    /\ UNCHANGED <<newVars, filesToNotifiers, event, attempts, callerVars, regHist,
                   streamVars, closeLog>>
    /\ UNCHANGED <<dirRet, received>>

\* close(notifyChan.(chan struct{})); break.  Closing a closed channel panics.
CloseNotifyChan ==
    /\ loopPc = "close"
    /\ closes' = [closes EXCEPT ![notifyChan] = @ + 1]
    /\ closeSeq' = Append(closeSeq, notifyChan)
    /\ IF closes[notifyChan] > 0
       THEN /\ loopPc' = "panic"
            /\ UNCHANGED <<closedBy, event, op, notifyChan, attempts>>
       ELSE /\ closedBy' = [closedBy EXCEPT ![notifyChan] = event.id]
            /\ loopPc' = "recv"
            /\ event' = NoEvent
            /\ op' = 0
            /\ UNCHANGED attempts
            /\ notifyChan' = NoChan
    /\ UNCHANGED <<newVars, filesToNotifiers, callerVars, regHist, streamVars,
                   closeLog>>
    /\ UNCHANGED <<dirRet, received>>

\* An exit that also closes and drops every pending channel.
LoopExitNotifyAll ==
    /\ loopPc = "recv"
    /\ events = <<>>
    /\ eventsClosed
    /\ loopPc' = "exited"
    /\ closeLog' = Append(closeLog, "loop")
    /\ closes' = [h \in Chans |->
                    IF \E p \in Paths : filesToNotifiers[p] = h
                    THEN closes[h] + 1 ELSE closes[h]]
    /\ filesToNotifiers' = [p \in Paths |-> NoChan]
    /\ UNCHANGED <<newVars, event, op, notifyChan, attempts, callerVars, regHist,
                   closedBy, streamVars>>
    /\ UNCHANGED <<dirRet, received, closeSeq>>

\* watcher.Events is closed and drained: the range ends and the deferred
\* dn.watcher.Close() runs.
LoopExit ==
    /\ loopPc = "recv"
    /\ events = <<>>
    /\ eventsClosed
    /\ loopPc' = "exited"
    /\ closeLog' = Append(closeLog, "loop")
    /\ UNCHANGED <<newVars, filesToNotifiers, event, op, notifyChan, attempts,
                   callerVars, regHist, chanVars, streamVars>>
    /\ UNCHANGED <<dirRet, received, closeSeq>>

\* ------------------------------------------------------------------ Next
Next ==
    \/ NewWatcher
    \/ GoInitializeWatcher
    \/ WatcherAdd
    \/ \E c \in Callers, file \in Paths : MakeChan(c, file)
    \/ \E c \in Callers : StoreChan(c)
    \/ CallDirectory
    \/ \E name \in Paths, o \in EventOps : Deliver(name, o)
    \/ OwnerClose
    \/ Receive
    \/ OpsDone
    \/ OpSkip
    \/ OpLoadAndDelete
    \/ CloseNotifyChan
    \/ LoopExit

Spec == Init /\ [][Next]_vars

\* ------------------------------------------------------ shared notions
\* The matching policy as stated: the event carries some configured
\* operation whole.
SpecMatches(evOp) ==
    \E i \in 1..Len(opsToWatch) : BitAnd(evOp, opsToWatch[i]) = opsToWatch[i]

\* The number of events whose handling is complete: the loop is back at the
\* range over watcher.Events (or gone).
Handled == IF loopPc \in {"ops", "close", "panic"} THEN received - 1 ELSE received

\* This step is a step of initializeWatcher's inner loop.
LoopOpsStep == loopPc = "ops" /\ (op' # op \/ loopPc' # loopPc)

\* This step is caller c's LoadOrStore and return.
StoreStep(c) == callerPc[c] = "made" /\ callerPc'[c] = "ret"

\* ------------------------------------------------------------------- C1
\* C1: between two resolutions of a file (and before the first), of the
\* NotifierForFile calls that have completed for it exactly one succeeded,
\* whatever their interleaving: never two successes, never only failures;
\* and the registry holds an entry for the file exactly when one succeeded.
C1_Uniqueness ==
    \A p \in Paths :
        /\ okInEpoch[p] <= 1
        /\ (okInEpoch[p] + failInEpoch[p] >= 1 => okInEpoch[p] = 1)
        /\ (filesToNotifiers[p] # NoChan <=> okInEpoch[p] = 1)

\* Two overlapping calls for one file, no event for it dispatched: the call
\* that made its channel second stored first and won, the other failed.
C1_Witness ==
    \E c1, c2 \in Callers :
        /\ c1 # c2
        /\ callerPc[c1] = "ret" /\ callerPc[c2] = "ret"
        /\ callerFile[c1] = callerFile[c2]
        /\ resolved[callerFile[c1]] = 0
        /\ callerC[c1] < callerC[c2]
        /\ callerRet[c1].err /\ callerRet[c1].ch = NoChan
        /\ ~callerRet[c2].err /\ callerRet[c2].ch = callerC[c2]
        /\ filesToNotifiers[callerFile[c1]] = callerC[c2]

\* ------------------------------------------------------------------- C2
\* C2: when the loop comes to an event that carries a configured operation
\* while its file has a pending entry, the entry is removed and its channel
\* is then closed, once; an event whose file has no entry removes nothing,
\* closes nothing and leaves the loop running; no channel is closed twice.
C2_ExactlyOnce ==
    /\ [][(LoopOpsStep /\ op = 0 /\ SpecMatches(event.Op)
             /\ filesToNotifiers[event.Name] # NoChan)
          => /\ filesToNotifiers'[event.Name] = NoChan
             /\ loopPc' = "close"
             /\ notifyChan' = filesToNotifiers[event.Name]
             /\ closes[notifyChan'] = 0]_vars
    /\ [][(loopPc = "close" /\ loopPc' # "close")
          => /\ loopPc' = "recv"
             /\ closes' = [closes EXCEPT ![notifyChan] = 1]
             /\ filesToNotifiers' = filesToNotifiers]_vars
    /\ [][(LoopOpsStep /\ filesToNotifiers[event.Name] = NoChan)
          => /\ filesToNotifiers' = filesToNotifiers
             /\ closes' = closes
             /\ loopPc' \in {"ops", "recv"}]_vars
    /\ [](loopPc # "panic" /\ \A h \in Chans : closes[h] <= 1)

\* A second event for a file is through all its tests with nothing found,
\* after an earlier event closed the file's only registration.
C2_Witness ==
    /\ loopPc = "ops" /\ ~OpsLeft /\ attempts >= 1
    /\ SpecMatches(event.Op)
    /\ filesToNotifiers[event.Name] = NoChan
    /\ registered[event.Name] = 1
    /\ \E h \in Chans :
        /\ chanFile[h] = event.Name
        /\ closes[h] = 1
        /\ closedBy[h] >= 1 /\ closedBy[h] < event.id

\* ------------------------------------------------------------------- C3
\* C3: the loop removes an entry (and goes on to close its channel) only for
\* an event that carries some configured operation whole.
C3_OnlyConfiguredOps ==
    loopPc = "close" => SpecMatches(event.Op)

\* ------------------------------------------------------------------- C4
\* C4: a NotifierForFile call for a file that has a pending entry returns an
\* error and no channel and leaves the registry and every channel as they
\* were: the file still maps to the first channel, which is open.
C4_DuplicateLeavesFirst ==
    [][\A c \in Callers :
        (StoreStep(c) /\ filesToNotifiers[callerFile[c]] # NoChan)
        => /\ callerRet'[c].err /\ callerRet'[c].ch = NoChan
           /\ filesToNotifiers' = filesToNotifiers
           /\ filesToNotifiers'[callerFile[c]] # callerC[c]
           /\ closes' = closes
           /\ closes[filesToNotifiers[callerFile[c]]] = 0]_vars

\* The second call failed while the first was pending, and an event has since
\* closed the first call's channel.
C4_Witness ==
    \E c1, c2 \in Callers :
        /\ c1 # c2
        /\ callerPc[c1] = "ret" /\ callerPc[c2] = "ret"
        /\ callerFile[c1] = callerFile[c2]
        /\ registered[callerFile[c1]] = 1
        /\ ~callerRet[c1].err /\ callerRet[c2].err /\ ~callerRet[c2].again
        /\ closes[callerRet[c1].ch] = 1
        /\ closes[callerC[c2]] = 0

\* ------------------------------------------------------------------- C5
\* C5: a NotifierForFile call that stores when a channel of its file has
\* been closed and no registration of the file is pending succeeds, with a
\* new open channel that is now the file's entry; and no closed channel is
\* ever in the registry.
C5_ReRegistration ==
    /\ [][\A c \in Callers :
            (/\ StoreStep(c)
             /\ \E h \in Chans : chanFile[h] = callerFile[c] /\ closes[h] > 0
             /\ registered[callerFile[c]] = resolved[callerFile[c]])
            => /\ ~callerRet'[c].err
               /\ callerRet'[c].ch = callerC[c]
               /\ closes'[callerC[c]] = 0
               /\ filesToNotifiers'[callerFile[c]] = callerC[c]]_vars
    /\ [](\A p \in Paths :
            filesToNotifiers[p] # NoChan => closes[filesToNotifiers[p]] = 0)

\* A call registered its file again after the file's earlier channel had
\* been closed; the new channel is open and pending.
C5_Witness ==
    \E c \in Callers :
        /\ callerPc[c] = "ret"
        /\ callerRet[c].again /\ ~callerRet[c].err
        /\ filesToNotifiers[callerFile[c]] = callerRet[c].ch
        /\ closes[callerRet[c].ch] = 0
        /\ \E h \in Chans :
            h # callerRet[c].ch /\ chanFile[h] = callerFile[c] /\ closes[h] = 1

\* ------------------------------------------------------------------- C6
\* C6: a file's entry changes only by a caller's LoadOrStore for that very
\* file (from none to the caller's channel) or by the loop's LoadAndDelete
\* while it handles an event for that very file (to none); a channel's
\* closed state changes only by the loop closing the channel it removed for
\* the event's file.  Nothing else inserts, removes or closes.
C6_Independence ==
    [][/\ \A q \in Paths :
            filesToNotifiers'[q] # filesToNotifiers[q]
            => \/ /\ filesToNotifiers[q] = NoChan
                  /\ \E c \in Callers :
                        /\ StoreStep(c)
                        /\ callerFile[c] = q
                        /\ filesToNotifiers'[q] = callerC[c]
               \/ /\ filesToNotifiers'[q] = NoChan
                  /\ LoopOpsStep
                  /\ event.Name = q
                  /\ loopPc' = "close"
       /\ \A h \in Chans :
            closes'[h] # closes[h]
            => /\ loopPc = "close"
               /\ h = notifyChan
               /\ chanFile[h] = event.Name]_vars

\* One file's channel has been closed by its event while another file's
\* registration, made by another caller, is still pending and open.
C6_Witness ==
    \E c1, c2 \in Callers :
        /\ callerPc[c1] = "ret" /\ callerPc[c2] = "ret"
        /\ callerFile[c1] # callerFile[c2]
        /\ ~callerRet[c1].err /\ ~callerRet[c2].err
        /\ closes[callerRet[c1].ch] = 1
        /\ filesToNotifiers[callerFile[c1]] = NoChan
        /\ filesToNotifiers[callerFile[c2]] = callerRet[c2].ch
        /\ closes[callerRet[c2].ch] = 0

\* ------------------------------------------------------------------- C7
\* C7: once New has returned the error of a failed watcher.Add, no
\* initializeWatcher goroutine exists: none was started or it has exited.
C7_NoTaskAfterSetupFailure ==
    newPc = "addfailed" => loopPc \in {"none", "exited"}

\* ------------------------------------------------------------------- C8
\* C8: the step that ends the loop closes no channel and removes no entry,
\* and once the loop has ended it stays ended, no channel is closed any more
\* and every pending entry stays in the registry as it is.
C8_ShutdownLeavesPending ==
    [][(loopPc = "exited" \/ loopPc' = "exited")
       => /\ loopPc' = "exited"
          /\ closes' = closes
          /\ \A p \in Paths :
                filesToNotifiers[p] # NoChan
                => filesToNotifiers'[p] = filesToNotifiers[p]]_vars

\* The loop has ended on the closed event stream while a registration is
\* still pending and its channel open.
C8_Witness ==
    /\ loopPc = "exited"
    /\ eventsClosed
    /\ \E c \in Callers :
        /\ callerPc[c] = "ret" /\ ~callerRet[c].err
        /\ filesToNotifiers[callerFile[c]] = callerRet[c].ch
        /\ closes[callerRet[c].ch] = 0

\* ------------------------------------------------------------------- C9
\* C9: watcher.Close() is never performed more than once nor by anyone but
\* the loop, and an execution of New that created the watcher and has come
\* to rest after a failed watcher.Add has had it performed once, by the loop.
C9_ReleasedOnceByLoop ==
    /\ Len(closeLog) <= 1
    /\ \A i \in 1..Len(closeLog) : closeLog[i] = "loop"
    /\ (newPc = "addfailed" /\ ~ENABLED Next) => closeLog = <<"loop">>

\* ------------------------------------------------------------------ C10
\* C10: a caller that has entered NotifierForFile can always take its
\* LoadOrStore step and return, whatever the loop and the other callers are
\* doing: nothing it waits for is held by anyone else.
C10_NeverBlocks ==
    \A c \in Callers : callerPc[c] = "made" => ENABLED StoreChan(c)

\* A call has completed in the middle of the loop's handling of an event for
\* its file: the loop has removed the file's earlier channel and not yet
\* closed it, and the file's entry is already the channel this call stored.
C10_Witness ==
    \E c \in Callers :
        /\ callerPc[c] = "ret" /\ ~callerRet[c].err
        /\ loopPc = "close"
        /\ event.Name = callerFile[c]
        /\ notifyChan # callerRet[c].ch
        /\ closes[notifyChan] = 0
        /\ filesToNotifiers[callerFile[c]] = callerRet[c].ch

\* ------------------------------------------------------------------ C11
\* C11: once dn is constructed Directory() is the dir New was called with
\* and dn.dir never changes; a Directory() call returns that string and
\* changes nothing else: not the registry, no channel, not opsToWatch, not
\* the watcher's stream, no goroutine's position.
C11_DirectoryPure ==
    /\ [](newPc \in {"created", "spawned", "ok", "addfailed"} => Directory = newDir)
    /\ [][dir # "" => dir' = dir]_vars
    /\ [][dirRet' # dirRet
          => /\ dirRet' = newDir
             /\ UNCHANGED <<newPc, opsToWatch, newDir, dir, filesToNotifiers, events,
                            eventsClosed, closeLog, loopPc, event, op, notifyChan,
                            callerPc, callerFile, callerC, callerRet, made, chanFile,
                            closes, closedBy, emitted, attempts, registered,
                            resolved, okInEpoch, failInEpoch, received,
                            closeSeq>>]_vars

\* Directory() has returned the directory of this New call while a
\* registration is pending and the loop is in the middle of an event.
C11_Witness ==
    /\ dirRet = "/tmp/y"
    /\ newDir = "/tmp/y"
    /\ loopPc = "ops"
    /\ \E p \in Paths : filesToNotifiers[p] # NoChan

\* ------------------------------------------------------------------ C12
\* C12: a closed channel is never in the registry, and an entry is always
\* the channel made for that file; once a successful call has returned and
\* the loop is not between removing its channel and closing it, the channel
\* is either closed and out of the registry or open and the file's entry;
\* every close is made by the event whose handling is in progress, never by
\* one whose handling is complete, and a channel is open when it is stored.
C12_Linearizable ==
    /\ [](\A h \in Chans :
            /\ closes[h] > 0 => \A p \in Paths : filesToNotifiers[p] # h
            /\ \A p \in Paths : filesToNotifiers[p] = h => chanFile[h] = p)
    /\ [](\A c \in Callers :
            (/\ callerPc[c] = "ret" /\ ~callerRet[c].err
             /\ ~(loopPc = "close" /\ notifyChan = callerRet[c].ch))
            => \/ /\ closes[callerRet[c].ch] = 1
                  /\ filesToNotifiers[callerFile[c]] # callerRet[c].ch
               \/ /\ closes[callerRet[c].ch] = 0
                  /\ filesToNotifiers[callerFile[c]] = callerRet[c].ch)
    /\ [][/\ Handled' >= Handled
          /\ \A h \in Chans :
                closes'[h] # closes[h]
                => /\ closedBy'[h] = event.id
                   /\ event.id = received
                   /\ event.id > Handled
          /\ \A c \in Callers :
                (StoreStep(c) /\ ~callerRet'[c].err)
                => closes[callerC[c]] = 0 /\ closedBy[callerC[c]] = 0]_vars

\* "In time" with a true overlap: the event's first LoadAndDelete found no
\* entry, the file's only registration was stored before the second one,
\* which found it; both are complete, the channel is closed and the file has
\* no entry.
C12_Witness ==
    /\ loopPc = "recv"
    /\ attempts = 2
    /\ \E c \in Callers :
        /\ callerPc[c] = "ret" /\ ~callerRet[c].err
        /\ registered[callerFile[c]] = 1
        /\ closes[callerRet[c].ch] = 1
        /\ closedBy[callerRet[c].ch] = received
        /\ filesToNotifiers[callerFile[c]] = NoChan

\* ------------------------------------------------------------------ C13
\* C13: the loop makes at most one LoadAndDelete call for an event.
C13_AtMostOneAttempt ==
    attempts <= 1

\* ------------------------------------------------------------------ C14
\* C14: watcher.Add is reached only with the goroutine started, so whenever
\* an event has been delivered on watcher.Events the goroutine exists.
C14_LoopStartedBeforeWatching ==
    /\ newPc \in {"spawned", "ok", "addfailed"} => loopPc # "none"
    /\ (emitted > 0 \/ events # <<>>) => loopPc # "none"

\* An event is on the stream, not yet taken, and the goroutine is at its
\* range over watcher.Events.
C14_Witness ==
    /\ events # <<>>
    /\ emitted = 1
    /\ received = 0
    /\ loopPc = "recv"

\* ------------------------------------------------------------------ C15
\* C15: the loop takes an event only when it is through with the one
\* before, and the one it takes is the oldest on the stream, whose number is
\* one more than that of the one before; the stream holds the following
\* numbers in order; channels are closed in the order of the events that
\* closed them.
C15_InOrder ==
    /\ [][received' # received
          => /\ loopPc = "recv" /\ notifyChan = NoChan
             /\ received' = received + 1
             /\ event' = Head(events)
             /\ events' = Tail(events)
             /\ event'.id = received']_vars
    /\ [](/\ \A i \in 1..Len(events) : events[i].id = received + i
          /\ loopPc \in {"ops", "close"} => event.id = received
          /\ \A h \in Chans : closedBy[h] <= received
          /\ \A i, j \in 1..Len(closeSeq) :
                i < j => closedBy[closeSeq[i]] < closedBy[closeSeq[j]])

\* Two events have been handled one after the other: the first closed one
\* file's channel, then the second closed the other file's.
C15_Witness ==
    /\ Len(closeSeq) = 2
    /\ closedBy[closeSeq[1]] = 1
    /\ closedBy[closeSeq[2]] = 2
    /\ chanFile[closeSeq[1]] # chanFile[closeSeq[2]]
    /\ loopPc = "recv"

\* ------------------------------------------------------------------ C16
\* C16: no channel has had more than one close, the loop has not panicked,
\* no channel appears twice among the closes made, and no two channels were
\* closed by the same event.
C16_ClosedAtMostOnce ==
    /\ loopPc # "panic"
    /\ \A h \in Chans : closes[h] <= 1
    /\ \A i, j \in 1..Len(closeSeq) : i # j => closeSeq[i] # closeSeq[j]
    /\ \A h1, h2 \in Chans :
        (h1 # h2 /\ closes[h1] > 0 /\ closes[h2] > 0) => closedBy[h1] # closedBy[h2]

\* One file was registered, closed by an event, registered again and closed
\* by a second event for the same file: two channels, one close each.
C16_Witness ==
    \E h1, h2 \in Chans :
        /\ h1 # h2
        /\ chanFile[h1] = chanFile[h2]
        /\ closes[h1] = 1 /\ closes[h2] = 1
        /\ closedBy[h1] = 1 /\ closedBy[h2] = 2

\* ------------------------------------------------------------------ C17
\* C17: with no operations passed to New the loop makes no LoadAndDelete
\* call, no channel is ever closed and no entry removed: a file is
\* registered at most once, its entry stays, and every further call for it
\* has failed.
C17_EmptyOpsNeverResolve ==
    opsToWatch = <<>>
    => /\ attempts = 0
       /\ closeSeq = <<>>
       /\ \A h \in Chans : closes[h] = 0
       /\ \A p \in Paths :
            /\ resolved[p] = 0
            /\ registered[p] <= 1
            /\ registered[p] = 1 => filesToNotifiers[p] # NoChan
            /\ failInEpoch[p] > 0 => registered[p] = 1

\* No operations configured: an event for a registered file has been taken
\* and is through the (empty) inner loop, the entry is still there and open,
\* and a second call for the file has failed.
C17_Witness ==
    /\ opsToWatch = <<>>
    /\ loopPc = "ops"
    /\ \E c1, c2 \in Callers :
        /\ callerPc[c1] = "ret" /\ ~callerRet[c1].err
        /\ callerPc[c2] = "ret" /\ callerRet[c2].err
        /\ callerFile[c1] = event.Name /\ callerFile[c2] = event.Name
        /\ filesToNotifiers[event.Name] = callerRet[c1].ch
        /\ closes[callerRet[c1].ch] = 0

====
